---- MODULE Spec2Model ----
(***************************************************************************)
(* The client registry (package clients), the flag-check handler (package  *)
(* feature) and the start-up / shutdown sequence of main of the            *)
(* klage-unleash-proxy, as a state machine.                                *)
(*                                                                         *)
(* One goroutine per allow-listed application constructs an Unleash        *)
(* client, waits until it is ready and inserts it into clientMap under the *)
(* write lock of mu; Initialize joins them on a WaitGroup, collects the    *)
(* errors and stores the readiness flag.  Request handlers validate the    *)
(* request, look the client up under the read lock and evaluate the flag.  *)
(***************************************************************************)
EXTENDS Integers, Sequences, FiniteSets, TLC

\* ------------------------------------------------------------------ bounds

\* Largest number of applications in the allow-list.
MaxApps == 2

\* The longest feature name that is built from every combination of NameChars.
MaxLen == 2

\* ------------------------------------------------------- program constants

MaxNameLen == 100
StatusOK == 200
StatusBadRequest == 400
StatusMethodNotAllowed == 405
StatusServiceUnavailable == 503

\* ----------------------------------------------------------------- inputs

Range(s) == {s[i] : i \in 1..Len(s)}

\* Application names; the allow-list is a prefix of this list, so that at
\* least one name stays outside of it.
AllApps == <<"app1", "app2", "app3", "app4">>

\* The values nais.InboundApps can have after init(): non-empty names, at
\* least one (init panics otherwise).
AllowLists == {SubSeq(AllApps, 1, k) : k \in 1..MaxApps}

\* appName values a request body can carry: empty, allow-listed, or not.
ReqApps == {""} \cup {AllApps[i] : i \in 1..(MaxApps + 1)}

Methods == {"POST", "QUERY", "GET"}

\* Feature names as sequences of characters: "", "f", "my-flag", "../etc".
ReqNames == {<<>>, <<"f">>, <<"m", "y", "-", "f", "l", "a", "g">>,
             <<".", ".", "/", "e", "t", "c">>}

\* A body is malformed JSON (ok = FALSE) or decodes into a Request.
Bodies == {[ok |-> FALSE, appName |-> ""]} \cup {[ok |-> TRUE, appName |-> a] : a \in ReqApps}

Requests == [method : Methods, name : ReqNames, body : Bodies]

\* ------------------------------------------------------------------ state

VARIABLES
  InboundApps,    \* nais.InboundApps
  clientMap,      \* clients.clientMap: app name -> client
  mu,             \* clients.mu: holders of the write lock and of the read lock
  ready,          \* clients.ready
  wg,             \* Initialize: counter of the WaitGroup
  errChan,        \* Initialize: buffered error channel
  errs,           \* Initialize: errors collected after the barrier
  initResult,     \* what Initialize returned: "none" (not yet), "nil", "error"
  mainPc,         \* position of the main goroutine
  loopIdx,        \* Initialize: index of the spawn loop
  task,           \* the construction goroutines (inserted: it has stored its client)
  client,         \* the Unleash clients, by the goroutine that constructs them
  constructions,  \* number of unleash.NewClient calls per app name
  server,         \* the HTTP server: "down", "starting", "up", "closed"
  sdPc,           \* position of the shutdown goroutine
  proc,           \* the process: "running", "exit0", "exit1", "killed"
  handler,        \* the request handlers in flight
  probe,          \* the last answer of a health endpoint
  nameCheck       \* a feature name and what IsValidName returned for it

vars == <<InboundApps, clientMap, mu, ready, wg, errChan, errs, initResult, mainPc,
          loopIdx, task, client, constructions, server, sdPc, proc, handler, probe,
          nameCheck>>

Tasks == 1..MaxApps

\* The request handlers. One request at a time is followed through the
\* handler: handlers share nothing but clientMap and mu, which they only read.
Slots == {1}

NoClient == [appName |-> "", state |-> "none", closes |-> 0]
NoReq == [method |-> "", name |-> <<>>, body |-> [ok |-> FALSE, appName |-> ""]]
NoResp == [status |-> 0, error |-> "", text |-> "", apps |-> <<>>, enabled |-> FALSE]
IdleHandler == [pc |-> "idle", req |-> NoReq, found |-> FALSE, client |-> 0,
                gets |-> 0, evals |-> 0, evalOn |-> 0, evalClosed |-> FALSE,
                decision |-> FALSE, resp |-> NoResp]

\* No health endpoint has answered yet.
NoProbe == [path |-> "", status |-> 0]

\* IsValidName has not been applied.
NoNameCheck == [name |-> <<>>, done |-> FALSE, valid |-> FALSE]

\* make(map[string]*unleash.Client)
EmptyMap == [a \in {} |-> 0]

\* The state at the start of main, for the allow-lists in lists.
InitFrom(lists) ==
  /\ InboundApps \in lists
  /\ clientMap = EmptyMap
  /\ mu = [w |-> {}, r |-> {}]
  /\ ready = FALSE
  /\ wg = 0
  /\ errChan = <<>>
  /\ errs = <<>>
  /\ initResult = "none"
  /\ mainPc = "start"
  /\ loopIdx = 1
  /\ task = [i \in Tasks |-> [pc |-> "unspawned", app |-> "", inserted |-> FALSE]]
  /\ client = [i \in Tasks |-> NoClient]
  /\ constructions = [a \in Range(AllApps) |-> 0]
  /\ server = "down"
  /\ sdPc = "idle"
  /\ proc = "running"
  /\ handler = [s \in Slots |-> IdleHandler]
  /\ probe = NoProbe

Init == InitFrom(AllowLists) /\ nameCheck = NoNameCheck

Running == proc = "running"

\* ------------------------------------------------- sync.RWMutex (clients.mu)

TaskHolder(i) == <<"task", i>>
CloseHolder == <<"Close", 0>>

\* (changed) the writer takes its lock without waiting for the readers.
CanLockDespiteReaders == mu.w = {}

\* mu.Lock() returns only when nobody holds the lock.
CanLock == mu.w = {} /\ mu.r = {}

\* mu.RLock() returns only when no writer holds the lock.
CanRLock == mu.w = {}

\* ------------------------------------------------------ clients.Initialize

\* (changed) the channel holds one error.
ErrChanOneSlot == Len(errChan) < 1

\* errChan := make(chan error, len(nais.InboundApps)): a send blocks while
\* the buffer is full.
ErrChanHasRoom == Len(errChan) < Len(InboundApps)

\* (changed) Wait gives up after a timeout.
WaitGroupOrTimeout == TRUE

\* (changed) Wait returns as soon as one goroutine has finished.
WaitGroupFirstDone == wg < Len(InboundApps)

\* wg.Wait() returns when the counter is zero.
WaitGroupDone == wg = 0

\* (changed) every goroutine reads the loop variable after the loop has ended.
SpawnArgLast(k) == InboundApps[Len(InboundApps)]

\* The argument the goroutine of the loop's k-th iteration is started with.
SpawnArg(k) == InboundApps[k]

\* (changed) every client is configured with the proxy's own name.
ClientAppNameOwn(app) == "klage-unleash-proxy"

\* The application name the client is configured with: unleash.WithAppName(app).
ClientAppName(app) == app

\* (changed) the map is replaced by one that holds the new entry only.
MapReplace(m, app, c) == [a \in {app} |-> c]

\* clientMap[app] = c
MapInsert(m, app, c) == [a \in (DOMAIN m) \cup {app} |-> IF a = app THEN c ELSE m[a]]

\* fmt.Errorf("failed to create Unleash client for %s: %w", app, err)
CreateError(app) == [app |-> app]

\* (changed) only the first error is received from the channel.
CollectFirstError(ch) == IF ch = <<>> THEN <<>> ELSE <<Head(ch)>>

\* for err := range errChan { errs = append(errs, err) }
CollectErrors(ch) == ch

\* (changed) the collected errors are not looked at.
InitializeNeverFails(es) == FALSE

\* if len(errs) > 0 { return error }; ready.Store(true); return nil
InitializeFails(es) == Len(es) > 0

\* main: the server goroutine is started before the clients are initialized.
MainStartServer ==
  /\ Running /\ mainPc = "start"
  /\ server' = "starting"
  /\ mainPc' = "initialize"
  /\ UNCHANGED <<probe, nameCheck, InboundApps, clientMap, mu, ready, wg, errChan, errs, initResult,
                 loopIdx, task, client, constructions, sdPc, proc, handler>>

\* server.ListenAndServe(): the listener comes up, or the server fails and
\* the process exits with status 1.
ServerListen ==
  /\ Running /\ server = "starting"
  /\ \E ok \in BOOLEAN :
       IF ok THEN server' = "up" /\ proc' = proc
             ELSE server' = "down" /\ proc' = "exit1"
  /\ UNCHANGED <<probe, nameCheck, InboundApps, clientMap, mu, ready, wg, errChan, errs, initResult,
                 mainPc, loopIdx, task, client, constructions, sdPc, handler>>

\* Initialize: the WaitGroup and the error channel are created.
InitializeBegin ==
  /\ Running /\ mainPc = "initialize"
  /\ wg' = 0 /\ errChan' = <<>> /\ loopIdx' = 1
  /\ mainPc' = "spawn"
  /\ UNCHANGED <<probe, nameCheck, InboundApps, clientMap, mu, ready, errs, initResult, task, client,
                 constructions, server, sdPc, proc, handler>>

\* One iteration of the loop over nais.InboundApps: wg.Add(1); go func(app).
Spawn ==
  /\ Running /\ mainPc = "spawn" /\ loopIdx <= Len(InboundApps)
  /\ wg' = wg + 1
  /\ task' = [task EXCEPT ![loopIdx] = [pc |-> "newclient", app |-> SpawnArg(loopIdx), inserted |-> FALSE]]
  /\ loopIdx' = loopIdx + 1
  /\ mainPc' = IF loopIdx = Len(InboundApps) THEN "wait" ELSE "spawn"
  /\ UNCHANGED <<probe, nameCheck, InboundApps, clientMap, mu, ready, errChan, errs, initResult, client,
                 constructions, server, sdPc, proc, handler>>

\* wg.Wait()
Wait ==
  /\ Running /\ mainPc = "wait"
  /\ WaitGroupDone
  /\ mainPc' = "collect"
  /\ UNCHANGED <<probe, nameCheck, InboundApps, clientMap, mu, ready, wg, errChan, errs, initResult,
                 loopIdx, task, client, constructions, server, sdPc, proc, handler>>

\* close(errChan), the errors are collected, and Initialize returns: an
\* error when there is one, nil after ready.Store(true) otherwise.
Collect ==
  /\ Running /\ mainPc = "collect"
  /\ errs' = CollectErrors(errChan)
  /\ errChan' = <<>>
  /\ IF InitializeFails(errs')
       THEN initResult' = "error" /\ ready' = ready
       ELSE initResult' = "nil" /\ ready' = TRUE
  /\ mainPc' = "returned"
  /\ UNCHANGED <<probe, nameCheck, InboundApps, clientMap, mu, wg, loopIdx, task, client, constructions,
                 server, sdPc, proc, handler>>

\* unleash.NewClient(...): the client is created, or the call fails.
TaskNewClient(i) ==
  /\ Running /\ task[i].pc = "newclient"
  /\ constructions' = [constructions EXCEPT ![task[i].app] = @ + 1]
  /\ \E ok \in BOOLEAN :
       IF ok
         THEN /\ client' = [client EXCEPT ![i] = [appName |-> ClientAppName(task[i].app),
                                                  state |-> "created", closes |-> 0]]
              /\ task' = [task EXCEPT ![i].pc = "waitready"]
         ELSE /\ client' = [client EXCEPT ![i] = [appName |-> "", state |-> "failed", closes |-> 0]]
              /\ task' = [task EXCEPT ![i].pc = "senderr"]
  /\ UNCHANGED <<probe, nameCheck, InboundApps, clientMap, mu, ready, wg, errChan, errs, initResult,
                 mainPc, loopIdx, server, sdPc, proc, handler>>

\* errChan <- fmt.Errorf(...); return
TaskSendErr(i) ==
  /\ Running /\ task[i].pc = "senderr"
  /\ ErrChanHasRoom
  /\ errChan' = Append(errChan, CreateError(task[i].app))
  /\ task' = [task EXCEPT ![i].pc = "return"]
  /\ UNCHANGED <<probe, nameCheck, InboundApps, clientMap, mu, ready, wg, errs, initResult, mainPc,
                 loopIdx, client, constructions, server, sdPc, proc, handler>>

\* client.WaitForReady() returns once the client has synchronized with the
\* Unleash server.
TaskWaitForReady(i) ==
  /\ Running /\ task[i].pc = "waitready"
  /\ client' = [client EXCEPT ![i].state = "ready"]
  /\ task' = [task EXCEPT ![i].pc = "lock"]
  /\ UNCHANGED <<probe, nameCheck, InboundApps, clientMap, mu, ready, wg, errChan, errs, initResult,
                 mainPc, loopIdx, constructions, server, sdPc, proc, handler>>

\* mu.Lock()
TaskLock(i) ==
  /\ Running /\ task[i].pc = "lock"
  /\ CanLock
  /\ mu' = [mu EXCEPT !.w = @ \cup {TaskHolder(i)}]
  /\ task' = [task EXCEPT ![i].pc = "insert"]
  /\ UNCHANGED <<probe, nameCheck, InboundApps, clientMap, ready, wg, errChan, errs, initResult, mainPc,
                 loopIdx, client, constructions, server, sdPc, proc, handler>>

\* clientMap[app] = client
TaskInsert(i) ==
  /\ Running /\ task[i].pc = "insert"
  /\ clientMap' = MapInsert(clientMap, task[i].app, i)
  /\ task' = [task EXCEPT ![i].pc = "unlock", ![i].inserted = TRUE]
  /\ UNCHANGED <<probe, nameCheck, InboundApps, mu, ready, wg, errChan, errs, initResult, mainPc,
                 loopIdx, client, constructions, server, sdPc, proc, handler>>

\* mu.Unlock()
TaskUnlock(i) ==
  /\ Running /\ task[i].pc = "unlock"
  /\ mu' = [mu EXCEPT !.w = @ \ {TaskHolder(i)}]
  /\ task' = [task EXCEPT ![i].pc = "return"]
  /\ UNCHANGED <<probe, nameCheck, InboundApps, clientMap, ready, wg, errChan, errs, initResult, mainPc,
                 loopIdx, client, constructions, server, sdPc, proc, handler>>

\* defer wg.Done(): the goroutine ends.
TaskDone(i) ==
  /\ Running /\ task[i].pc = "return"
  /\ wg' = wg - 1
  /\ task' = [task EXCEPT ![i].pc = "done"]
  /\ UNCHANGED <<probe, nameCheck, InboundApps, clientMap, mu, ready, errChan, errs, initResult, mainPc,
                 loopIdx, client, constructions, server, sdPc, proc, handler>>

\* ------------------------------------------------------- feature.IsValidName

Letters == {"a", "b", "c", "d", "e", "f", "g", "h", "i", "j", "k", "l", "m", "n", "o",
            "p", "q", "r", "s", "t", "u", "v", "w", "x", "y", "z",
            "A", "B", "C", "D", "E", "F", "G", "H", "I", "J", "K", "L", "M", "N", "O",
            "P", "Q", "R", "S", "T", "U", "V", "W", "X", "Y", "Z"}

Digits == {"0", "1", "2", "3", "4", "5", "6", "7", "8", "9"}

\* url.PathEscape escapes every byte except the unreserved characters and
\* the reserved characters that are allowed in a path segment.
ShouldEscape(c) ==
  ~ (c \in Letters \cup Digits \cup {"-", "_", ".", "~"} \cup {"$", "&", "+", ":", "=", "@"})

\* An escaped byte becomes "%" followed by two hexadecimal digits.
EscapeChar(c) == IF ShouldEscape(c) THEN <<"%", "X", "X">> ELSE <<c>>

RECURSIVE PathEscape(_)
PathEscape(name) ==
  IF name = <<>> THEN <<>> ELSE EscapeChar(Head(name)) \o PathEscape(Tail(name))

\* (changed) a name of MaxNameLen characters is too long.
IsValidNameShorter(name) ==
  IF Len(name) < 1 \/ Len(name) >= MaxNameLen THEN FALSE
  ELSE IF name = <<".">> \/ name = <<".", ".">> THEN FALSE
  ELSE PathEscape(name) = name

IsValidName(name) ==
  IF Len(name) < 1 \/ Len(name) > MaxNameLen THEN FALSE
  ELSE IF name = <<".">> \/ name = <<".", ".">> THEN FALSE
  ELSE PathEscape(name) = name

\* The feature names IsValidName is applied to: every name of at most MaxLen
\* characters of NameChars, and each of them filled up with "a" to one
\* character less than, exactly, and one character more than MaxNameLen.
NameChars == {"a", "7", "-", ".", "~", "$", "@", "/", "%", " ", "!"}

ShortNames == UNION {[1..n -> NameChars] : n \in 0..MaxLen}

Filled(name, n) == name \o [i \in 1..(n - Len(name)) |-> "a"]

NameInputs ==
  ShortNames \cup
  {Filled(name, n) : name \in ShortNames, n \in {MaxNameLen - 1, MaxNameLen, MaxNameLen + 1}}

\* IsValidName is called with the name.
CheckName ==
  /\ ~ nameCheck.done
  /\ nameCheck' = [nameCheck EXCEPT !.done = TRUE, !.valid = IsValidName(nameCheck.name)]
  /\ UNCHANGED <<probe, InboundApps, clientMap, mu, ready, wg, errChan, errs, initResult,
                 mainPc, loopIdx, task, client, constructions, server, sdPc, proc, handler>>

InitNames ==
  /\ InitFrom({<<AllApps[1]>>})
  /\ nameCheck \in {[name |-> n, done |-> FALSE, valid |-> FALSE] : n \in NameInputs}

NextNames == CheckName

\* IsValidName applied to the names of NameInputs.
SpecNames == InitNames /\ [][NextNames]_vars

\* ----------------------------------------------------------- feature.Handler

ErrorResp(status, error, text, apps) ==
  [status |-> status, error |-> error, text |-> text, apps |-> apps, enabled |-> FALSE]

\* (changed) only POST is allowed.
MethodAllowedPostOnly(method) == method = "POST"

\* r.Method != http.MethodPost && r.Method != "QUERY" is answered with 405.
MethodAllowed(method) == method = "POST" \/ method = "QUERY"

\* (changed) an allow-listed application without a client is told to retry.
UnknownAppRespOrNotReady(req) ==
  IF req.body.appName \in Range(InboundApps)
    THEN ErrorResp(503, "client_not_ready", "Unleash client not ready", <<>>)
    ELSE ErrorResp(StatusBadRequest, "unknown_app_name",
                   "Unknown app_name: must be one of the allowed inbound applications: ",
                   InboundApps)

\* The message of the unknown-application answer: the allow-list follows the text.
UnknownAppResp(req) ==
  ErrorResp(StatusBadRequest, "unknown_app_name",
            "Unknown app_name: must be one of the allowed inbound applications: ",
            InboundApps)

\* (changed) the missing-application answer does not list the allow-list.
MissingAppRespNoList(req) ==
  ErrorResp(StatusBadRequest, "missing_app_name", "app_name is required in request body", <<>>)

\* The missing-application answer: the allow-list follows the text.
MissingAppResp(req) ==
  ErrorResp(StatusBadRequest, "missing_app_name",
            "app_name is required in request body, must be one of the allowed inbound applications: ",
            InboundApps)

\* (changed) the body is parsed before the feature name is validated.
ValidateBodyFirst(req) ==
  IF ~ MethodAllowed(req.method)
    THEN ErrorResp(StatusMethodNotAllowed, "method_not_allowed", "Method not allowed", <<>>)
  ELSE IF req.name = <<>>
    THEN ErrorResp(StatusBadRequest, "missing_feature", "Feature name is required", <<>>)
  ELSE IF ~ req.body.ok
    THEN ErrorResp(StatusBadRequest, "invalid_json", "Invalid JSON body", <<>>)
  ELSE IF ~ IsValidName(req.name)
    THEN ErrorResp(StatusBadRequest, "invalid_feature",
                   "Invalid feature name: must be URL-friendly, 1-100 characters, and not '.' or '..'",
                   <<>>)
  ELSE IF req.body.appName = ""
    THEN MissingAppResp(req)
  ELSE NoResp

\* The checks the handler makes before the lookup, in the order it makes
\* them: the answer of the first check that fails, or NoResp when all pass.
Validate(req) ==
  IF ~ MethodAllowed(req.method)
    THEN ErrorResp(StatusMethodNotAllowed, "method_not_allowed", "Method not allowed", <<>>)
  ELSE IF req.name = <<>>
    THEN ErrorResp(StatusBadRequest, "missing_feature", "Feature name is required", <<>>)
  ELSE IF ~ IsValidName(req.name)
    THEN ErrorResp(StatusBadRequest, "invalid_feature",
                   "Invalid feature name: must be URL-friendly, 1-100 characters, and not '.' or '..'",
                   <<>>)
  ELSE IF ~ req.body.ok
    THEN ErrorResp(StatusBadRequest, "invalid_json", "Invalid JSON body", <<>>)
  ELSE IF req.body.appName = ""
    THEN MissingAppResp(req)
  ELSE NoResp

\* The server is accepting requests.
Accepting == server = "up"

\* A request arrives and the handler runs its checks: it answers with the
\* error of the first failed check, or goes on to clients.Get.
HandlerReceive(s) ==
  /\ Running /\ Accepting /\ handler[s].pc = "idle"
  /\ \E req \in Requests :
       LET v == Validate(req) IN
         handler' = [handler EXCEPT ![s] =
           IF v = NoResp
             THEN [IdleHandler EXCEPT !.pc = "rlock", !.req = req]
             ELSE [IdleHandler EXCEPT !.pc = "done", !.req = req, !.resp = v]]
  /\ UNCHANGED <<probe, nameCheck, InboundApps, clientMap, mu, ready, wg, errChan, errs, initResult,
                 mainPc, loopIdx, task, client, constructions, server, sdPc, proc>>

\* (changed) a name that is not in the map yields the first client.
GetOrFirst(appName) ==
  IF appName \in DOMAIN clientMap
    THEN [client |-> clientMap[appName], ok |-> TRUE]
    ELSE [client |-> 1, ok |-> TRUE]

\* (changed) the lookup finds nothing until the registry is ready.
GetWhenReady(appName) ==
  IF ready /\ appName \in DOMAIN clientMap
    THEN [client |-> clientMap[appName], ok |-> TRUE]
    ELSE [client |-> 0, ok |-> FALSE]

\* clients.Get: what the lookup in clientMap yields.
Get(appName) ==
  IF appName \in DOMAIN clientMap
    THEN [client |-> clientMap[appName], ok |-> TRUE]
    ELSE [client |-> 0, ok |-> FALSE]

\* clients.Ready
Ready == ready

\* clients.Get: mu.RLock()
GetRLock(s) ==
  /\ Running /\ handler[s].pc = "rlock"
  /\ CanRLock
  /\ mu' = [mu EXCEPT !.r = @ \cup {s}]
  /\ handler' = [handler EXCEPT ![s].pc = "read", ![s].gets = @ + 1]
  /\ UNCHANGED <<probe, nameCheck, InboundApps, clientMap, ready, wg, errChan, errs, initResult, mainPc,
                 loopIdx, task, client, constructions, server, sdPc, proc>>

\* clients.Get: client, ok := clientMap[appName]
GetRead(s) ==
  /\ Running /\ handler[s].pc = "read"
  /\ LET g == Get(handler[s].req.body.appName)
     IN handler' = [handler EXCEPT ![s].pc = "runlock",
                                   ![s].found = g.ok,
                                   ![s].client = g.client]
  /\ UNCHANGED <<probe, nameCheck, InboundApps, clientMap, mu, ready, wg, errChan, errs, initResult,
                 mainPc, loopIdx, task, client, constructions, server, sdPc, proc>>

\* clients.Get returns (defer mu.RUnlock()); the handler answers that the
\* application is unknown when the client was not found.
GetReturn(s) ==
  /\ Running /\ handler[s].pc = "runlock"
  /\ mu' = [mu EXCEPT !.r = @ \ {s}]
  /\ handler' = [handler EXCEPT ![s] =
       IF handler[s].found
         THEN [@ EXCEPT !.pc = "eval"]
         ELSE [@ EXCEPT !.pc = "done", !.resp = UnknownAppResp(handler[s].req)]]
  /\ UNCHANGED <<probe, nameCheck, InboundApps, clientMap, ready, wg, errChan, errs, initResult, mainPc,
                 loopIdx, task, client, constructions, server, sdPc, proc>>

\* (changed) the evaluation goes to the first client, whoever the caller is.
EvalClientDefault(h) == 1

\* The client IsEnabled is called on: the one clients.Get returned.
EvalClient(h) == h.client

\* The answer to a request that passed every check: Response{Enabled: enabled}.
OkResp(enabled) ==
  [status |-> StatusOK, error |-> "", text |-> "", apps |-> <<>>, enabled |-> enabled]

\* client.IsEnabled(featureName, ...) and the 200 answer. What the client
\* answers is up to the Unleash SDK.
Evaluate(s) ==
  /\ Running /\ handler[s].pc = "eval"
  /\ \E enabled \in BOOLEAN :
       handler' = [handler EXCEPT ![s].pc = "done",
                                  ![s].evals = @ + 1,
                                  ![s].evalOn = EvalClient(handler[s]),
                                  ![s].evalClosed = client[EvalClient(handler[s])].state = "closed",
                                  ![s].decision = enabled,
                                  ![s].resp = OkResp(enabled)]
  /\ UNCHANGED <<probe, nameCheck, InboundApps, clientMap, mu, ready, wg, errChan, errs, initResult,
                 mainPc, loopIdx, task, client, constructions, server, sdPc, proc>>

\* The handler returns; the answer has been written.
HandlerReturn(s) ==
  /\ Running /\ handler[s].pc = "done"
  /\ handler' = [handler EXCEPT ![s] = IdleHandler]
  /\ UNCHANGED <<probe, nameCheck, InboundApps, clientMap, mu, ready, wg, errChan, errs, initResult,
                 mainPc, loopIdx, task, client, constructions, server, sdPc, proc>>

\* ------------------------------------------------------ main: health endpoints

\* livenessHandler: 200 "OK", whatever the state of the registry.
LivenessStatus == StatusOK

\* (changed) the readiness endpoint answers like the liveness endpoint.
ReadinessStatusAlwaysOK(isReady) == StatusOK

\* readinessHandler: 503 "NOT READY" unless clients.Ready(), else 200 "OK".
ReadinessStatus(isReady) == IF ~ isReady THEN StatusServiceUnavailable ELSE StatusOK

\* A request to /isAlive is answered.
LivenessProbe ==
  /\ Running /\ Accepting
  /\ probe' = [path |-> "/isAlive", status |-> LivenessStatus]
  /\ UNCHANGED <<nameCheck, InboundApps, clientMap, mu, ready, wg, errChan, errs, initResult,
                 mainPc, loopIdx, task, client, constructions, server, sdPc, proc, handler>>

\* A request to /isReady is answered.
ReadinessProbe ==
  /\ Running /\ Accepting
  /\ probe' = [path |-> "/isReady", status |-> ReadinessStatus(Ready)]
  /\ UNCHANGED <<nameCheck, InboundApps, clientMap, mu, ready, wg, errChan, errs, initResult,
                 mainPc, loopIdx, task, client, constructions, server, sdPc, proc, handler>>

\* ------------------------------------------------------ main: after Initialize

\* (changed) the error of Initialize is logged and main goes on.
ExitNever(result) == FALSE

\* initializeClients: if err := clients.Initialize(); err != nil { os.Exit(1) }
ExitOnError(result) == result = "error"

\* initializeClients: os.Exit(1) when Initialize returned an error;
\* otherwise main installs the signal handler and waits for ctx.Done().
InitializeClients ==
  /\ Running /\ mainPc = "returned"
  /\ IF ExitOnError(initResult)
       THEN proc' = "exit1" /\ mainPc' = mainPc
       ELSE proc' = proc /\ mainPc' = "serving"
  /\ UNCHANGED <<probe, nameCheck, InboundApps, clientMap, mu, ready, wg, errChan, errs, initResult,
                 loopIdx, task, client, constructions, server, sdPc, handler>>

\* (changed) the signal handler is installed before the clients are initialized.
NotifyInstalledEarly == mainPc # "start"

\* signal.Notify(signalChannel, ...) and the shutdown goroutine come after
\* initializeClients() in main.
NotifyInstalled == mainPc = "serving"

\* SIGINT or SIGTERM before signal.Notify: the Go runtime ends the process.
SignalBeforeNotify ==
  /\ Running /\ ~ NotifyInstalled
  /\ proc' = "killed"
  /\ UNCHANGED <<probe, nameCheck, InboundApps, clientMap, mu, ready, wg, errChan, errs, initResult,
                 mainPc, loopIdx, task, client, constructions, server, sdPc, handler>>

\* (changed) the shutdown goroutine goes from server.Shutdown to the telemetry.
AfterServerShutdownNoClose == "otel"

\* What the shutdown goroutine does once server.Shutdown has returned:
\* clients.Close().
AfterServerShutdown == "close"

\* SIGINT or SIGTERM after signal.Notify: the shutdown goroutine calls
\* server.Shutdown, which closes the listeners.
ShutdownSignal ==
  /\ Running /\ NotifyInstalled /\ sdPc = "idle"
  /\ sdPc' = "shutdown"
  /\ server' = "closed"
  /\ UNCHANGED <<probe, nameCheck, InboundApps, clientMap, mu, ready, wg, errChan, errs, initResult,
                 mainPc, loopIdx, task, client, constructions, proc, handler>>

\* server.Shutdown returns: no request is in flight any more, or the
\* deadline of the shutdown context has passed.
ServerShutdownReturn ==
  /\ Running /\ sdPc = "shutdown"
  /\ \E deadline \in BOOLEAN : deadline \/ \A s \in Slots : handler[s].pc = "idle"
  /\ sdPc' = AfterServerShutdown
  /\ UNCHANGED <<probe, nameCheck, InboundApps, clientMap, mu, ready, wg, errChan, errs, initResult,
                 mainPc, loopIdx, task, client, constructions, server, proc, handler>>

\* clients.Close: mu.Lock()
CloseLock ==
  /\ Running /\ sdPc = "close"
  /\ CanLock
  /\ mu' = [mu EXCEPT !.w = @ \cup {CloseHolder}]
  /\ sdPc' = "closing"
  /\ UNCHANGED <<probe, nameCheck, InboundApps, clientMap, ready, wg, errChan, errs, initResult, mainPc,
                 loopIdx, task, client, constructions, server, proc, handler>>

\* (changed) Close leaves the map as it is.
CloseKeepMap(m) == m

\* clients.Close: clients = make(map[string]*unleash.Client)
CloseResetMap(m) == EmptyMap

\* clients.Close: every client of the map is closed, then the map is replaced
\* by an empty one.
CloseClients ==
  /\ Running /\ sdPc = "closing"
  /\ client' = [i \in Tasks |->
       IF \E a \in DOMAIN clientMap : clientMap[a] = i
         THEN [client[i] EXCEPT !.state = "closed", !.closes = @ + 1]
         ELSE client[i]]
  /\ clientMap' = CloseResetMap(clientMap)
  /\ sdPc' = "unlock"
  /\ UNCHANGED <<probe, nameCheck, InboundApps, mu, ready, wg, errChan, errs, initResult, mainPc,
                 loopIdx, task, constructions, server, proc, handler>>

\* clients.Close: defer mu.Unlock()
CloseUnlock ==
  /\ Running /\ sdPc = "unlock"
  /\ mu' = [mu EXCEPT !.w = @ \ {CloseHolder}]
  /\ sdPc' = "otel"
  /\ UNCHANGED <<probe, nameCheck, InboundApps, clientMap, ready, wg, errChan, errs, initResult, mainPc,
                 loopIdx, task, client, constructions, server, proc, handler>>

\* otelInstance.Shutdown(shutdownCtx)
OtelShutdown ==
  /\ Running /\ sdPc = "otel"
  /\ sdPc' = "cancel"
  /\ UNCHANGED <<probe, nameCheck, InboundApps, clientMap, mu, ready, wg, errChan, errs, initResult,
                 mainPc, loopIdx, task, client, constructions, server, proc, handler>>

\* cancel(): main passes <-ctx.Done() and returns.
Cancel ==
  /\ Running /\ sdPc = "cancel"
  /\ sdPc' = "done"
  /\ proc' = "exit0"
  /\ UNCHANGED <<probe, nameCheck, InboundApps, clientMap, mu, ready, wg, errChan, errs, initResult,
                 mainPc, loopIdx, task, client, constructions, server, handler>>

\* nais.init appends every application name of the inbound rules without
\* looking for repetitions: the allow-lists of AllowLists, and those that
\* name the first application more than once.
AllowListsDup == AllowLists \cup {[i \in 1..k |-> AllApps[1]] : k \in 2..MaxApps}

InitDup == InitFrom(AllowListsDup) /\ nameCheck = NoNameCheck

Next ==
  \/ MainStartServer
  \/ ServerListen
  \/ InitializeBegin
  \/ Spawn
  \/ Wait
  \/ Collect
  \/ InitializeClients
  \/ \E i \in Tasks : TaskNewClient(i)
  \/ \E i \in Tasks : TaskSendErr(i)
  \/ \E i \in Tasks : TaskWaitForReady(i)
  \/ \E i \in Tasks : TaskLock(i)
  \/ \E i \in Tasks : TaskInsert(i)
  \/ \E i \in Tasks : TaskUnlock(i)
  \/ \E i \in Tasks : TaskDone(i)
  \/ \E s \in Slots : HandlerReceive(s)
  \/ \E s \in Slots : GetRLock(s)
  \/ \E s \in Slots : GetRead(s)
  \/ \E s \in Slots : GetReturn(s)
  \/ \E s \in Slots : Evaluate(s)
  \/ \E s \in Slots : HandlerReturn(s)
  \/ LivenessProbe
  \/ ReadinessProbe
  \/ SignalBeforeNotify
  \/ ShutdownSignal
  \/ ServerShutdownReturn
  \/ CloseLock
  \/ CloseClients
  \/ CloseUnlock
  \/ OtelShutdown
  \/ Cancel

Spec == Init /\ [][Next]_vars

\* The Go scheduler lets every goroutine that can take a step take it: main,
\* the construction goroutines up to client.WaitForReady, and a handler
\* inside clients.Get. A goroutine in mu.Lock() gets the lock although
\* readers come and go, because a waiting writer keeps new readers out.
\* Whether WaitForReady returns is up to the Unleash server, and signals and
\* requests arrive or not.
Scheduling ==
  /\ WF_vars(MainStartServer) /\ WF_vars(InitializeBegin) /\ WF_vars(Spawn)
  /\ WF_vars(Wait) /\ WF_vars(Collect)
  /\ \A i \in Tasks :
       /\ WF_vars(TaskNewClient(i)) /\ WF_vars(TaskSendErr(i))
       /\ SF_vars(TaskLock(i)) /\ WF_vars(TaskInsert(i))
       /\ WF_vars(TaskUnlock(i)) /\ WF_vars(TaskDone(i))
  /\ \A s \in Slots : WF_vars(GetRead(s)) /\ WF_vars(GetReturn(s))

\* The program under the scheduler.
SpecSched == Init /\ [][Next]_vars /\ Scheduling

\* The program with an allow-list that may name an application more than once.
SpecDup == InitDup /\ [][Next]_vars

\* ------------------------------------------------------------------ claims

Allowed == Range(InboundApps)
NotAllowed == Range(AllApps) \ Allowed
K == Len(InboundApps)

\* The construction goroutines that ended because NewClient failed.
FailedTasks == {i \in 1..K : client[i].state = "failed"}
FailedApps == {task[i].app : i \in FailedTasks}

\* Number of entries of the aggregate error that name the application a.
ErrCount(a) == Cardinality({k \in 1..Len(errs) : errs[k].app = a})

\* Close has replaced the map by an empty one.
MapEmptiedByClose == sdPc \in {"unlock", "otel", "cancel", "done"}

\* C1: Initialize starts exactly one client construction per allow-listed
\* identity and none for any other, and when it has returned every one of
\* the K constructions has been started and has ended, whether NewClient
\* failed or the client was inserted.
C1_Barrier ==
  /\ \A a \in Range(AllApps) : constructions[a] <= (IF a \in Allowed THEN 1 ELSE 0)
  /\ initResult # "none" =>
       /\ \A a \in Range(AllApps) : constructions[a] = (IF a \in Allowed THEN 1 ELSE 0)
       /\ \A i \in 1..K : task[i].pc = "done" /\ client[i].state # "none"
       /\ \A i \in Tasks \ (1..K) : task[i].pc = "unspawned"

\* Initialize has returned an error although one of two constructions succeeded.
C1_Witness ==
  /\ initResult = "error" /\ K = 2
  /\ \E i, j \in 1..K : client[i].state = "failed" /\ client[j].state = "ready"

\* C2: from the return of Initialize without error until Close empties the
\* map, Ready() is true, Get finds every identity of the allow-list and
\* finds no identity outside of it.
C2_AllFound ==
  (initResult = "nil" /\ ~ MapEmptiedByClose) =>
    /\ Ready
    /\ \A a \in Allowed : Get(a).ok
    /\ \A a \in NotAllowed : ~ Get(a).ok

\* Initialize has just returned nil for an allow-list of two.
C2_Witness == initResult = "nil" /\ mainPc = "returned" /\ K = 2

\* C3: when a construction has failed, Initialize returns an error that has
\* exactly one entry for every identity whose construction failed and none
\* for any other identity, and the readiness flag is false then and in every
\* later state.
C3_AggregateError ==
  (initResult # "none" /\ FailedTasks # {}) =>
    /\ initResult = "error"
    /\ ~ Ready
    /\ Len(errs) = Cardinality(FailedApps)
    /\ \A a \in Range(AllApps) : ErrCount(a) = (IF a \in FailedApps THEN 1 ELSE 0)

\* Initialize has returned after both constructions failed.
C3_Witness == initResult = "error" /\ Cardinality(FailedApps) = 2 /\ Len(errs) = 2

\* C4: the readiness flag never goes back from true to false (so it changes
\* at most once), and while it is true every construction has ended after
\* inserting a client that was created and became ready: none failed and
\* none is still running.
C4_ReadyOnce ==
  /\ [](Ready => \A i \in 1..K : /\ task[i].pc = "done"
                                 /\ task[i].inserted
                                 /\ client[i].state \in {"ready", "closed"})
  /\ [][ready => ready']_vars

\* The flag is true after two constructions, before any shutdown.
C4_Witness == Ready /\ K = 2 /\ sdPc = "idle" /\ mainPc = "serving"

\* C5 as stated: whenever Ready() is true, Get finds every identity of the
\* allow-list, in every reachable state, states after Close included.
C5_ReadyImpliesAllFound == Ready => \A a \in Allowed : Get(a).ok

\* C5 amended: whenever Ready() is true and Close has not yet emptied the
\* map, Get finds every identity of the allow-list.
C5_ReadyUntilClose == (Ready /\ ~ MapEmptiedByClose) => \A a \in Allowed : Get(a).ok

\* Close holds the write lock and is about to close the two clients.
C5_Witness == Ready /\ sdPc = "closing" /\ K = 2 /\ \A a \in Allowed : Get(a).ok

\* The construction of the identity a has not stored a client: it is still
\* running, or NewClient failed.
NotConstructed(a) ==
  \E i \in Tasks :
    /\ task[i].app = a
    /\ \/ task[i].pc \in {"newclient", "senderr", "waitready", "lock", "insert"}
       \/ client[i].state = "failed"

InReadSection(s) == handler[s].pc \in {"read", "runlock"}
InWriteSection(i) == task[i].pc \in {"insert", "unlock"}

\* C6: a Get that reads the map finds only a client that was created, has
\* signalled ready and was stored by the construction of the identity asked
\* for; an identity whose construction is still running or has failed is not
\* found; a client a handler holds was ready when it was found; and no
\* reader is inside the critical section of the map while a construction
\* goroutine is inside it as the writer.
C6_GetDuringInitialize ==
  /\ \A s \in Slots : handler[s].pc = "read" =>
       LET a == handler[s].req.body.appName
           g == Get(a)
       IN /\ s \in mu.r
          /\ g.ok => /\ g.client \in 1..K
                     /\ client[g.client].state = "ready"
                     /\ task[g.client].inserted
                     /\ task[g.client].app = a
          /\ NotConstructed(a) => ~ g.ok
  /\ \A s \in Slots : handler[s].found =>
       /\ handler[s].client \in 1..K
       /\ client[handler[s].client].state \in {"ready", "closed"}
  /\ \A s \in Slots : \A i \in Tasks : ~ (InReadSection(s) /\ InWriteSection(i))
  /\ \A i \in Tasks : InWriteSection(i) => mu.w = {TaskHolder(i)} /\ mu.r = {}

\* A Get reads the map for an identity whose construction waits for the
\* lock, while Initialize has not returned and the other client is stored.
C6_Witness ==
  \E s \in Slots : \E i, j \in 1..K :
    /\ handler[s].pc = "read" /\ initResult = "none"
    /\ task[i].app = handler[s].req.body.appName /\ task[i].pc = "lock"
    /\ task[j].inserted /\ Get(task[j].app).ok

\* C7: every key of clientMap is an identity of the allow-list, and the
\* client stored under a key was constructed with that key as its
\* application name.
C7_KeysAllowed ==
  \A a \in DOMAIN clientMap :
    /\ a \in Allowed
    /\ clientMap[a] \in 1..K
    /\ client[clientMap[a]].appName = a

\* Both clients of an allow-list of two are stored.
C7_Witness == K = 2 /\ DOMAIN clientMap = Allowed

\* The unknown-application answer, written out.
UnknownCallerAnswer ==
  [status |-> 400, error |-> "unknown_app_name",
   text |-> "Unknown app_name: must be one of the allowed inbound applications: ",
   apps |-> InboundApps, enabled |-> FALSE]

Answered(s) == handler[s].pc = "done"

\* C8 as stated: every answered request whose body names a non-empty caller
\* identity outside the allow-list is answered with the unknown-application
\* error, whatever its method and feature name are.
C8_AlwaysUnknownCaller ==
  \A s \in Slots :
    (Answered(s) /\ handler[s].req.body.ok /\ handler[s].req.body.appName \in NotAllowed)
      => handler[s].resp = UnknownCallerAnswer

\* C8 amended: every answered request that has an accepted method, a valid
\* feature name and a body that parses and names a non-empty caller identity
\* outside the allow-list is answered with the unknown-application error,
\* and no flag is evaluated for it.
C8_UnknownCallerAfterChecks ==
  \A s \in Slots :
    (/\ Answered(s)
     /\ handler[s].req.method \in {"POST", "QUERY"}
     /\ handler[s].req.name \in {<<"f">>, <<"m", "y", "-", "f", "l", "a", "g">>}
     /\ handler[s].req.body.ok
     /\ handler[s].req.body.appName \in NotAllowed)
      => /\ handler[s].resp = UnknownCallerAnswer
         /\ handler[s].evals = 0

\* A QUERY for "my-flag" by an application outside the allow-list has been
\* answered while every allow-listed client is stored.
C8_Witness ==
  \E s \in Slots :
    /\ Answered(s) /\ handler[s].req.method = "QUERY"
    /\ handler[s].req.name = <<"m", "y", "-", "f", "l", "a", "g">>
    /\ handler[s].req.body.ok /\ handler[s].req.body.appName \in NotAllowed
    /\ Ready /\ DOMAIN clientMap = Allowed

\* C9: a request whose lookup found no client gets the same answer, status
\* and message, whether its identity is allow-listed (client not yet stored,
\* or its construction failed) or was never allow-listed: the answer does
\* not depend on the identity.
C9_SameAnswer ==
  \A s \in Slots :
    (Answered(s) /\ handler[s].gets = 1 /\ ~ handler[s].found)
      => handler[s].resp = UnknownCallerAnswer

\* A request of an allow-listed identity whose construction failed has been
\* answered after a lookup that found nothing.
C9_Witness ==
  \E s \in Slots : \E i \in 1..K :
    /\ Answered(s) /\ handler[s].gets = 1 /\ ~ handler[s].found
    /\ task[i].app = handler[s].req.body.appName /\ client[i].state = "failed"

\* The first check of the claimed order that the request fails: method,
\* presence of the feature name, validity of the feature name, body, caller
\* identity; "" when it passes them all.
FirstFailedCheck(req) ==
  IF req.method \notin {"POST", "QUERY"} THEN "method_not_allowed"
  ELSE IF req.name = <<>> THEN "missing_feature"
  ELSE IF req.name \notin {<<"f">>, <<"m", "y", "-", "f", "l", "a", "g">>} THEN "invalid_feature"
  ELSE IF ~ req.body.ok THEN "invalid_json"
  ELSE IF req.body.appName = "" THEN "missing_app_name"
  ELSE ""

\* C10: a request that fails a check is answered with the error of the
\* first check it fails in the order method, presence of the feature name,
\* validity of the feature name, body, caller identity; the status is a
\* client error, and neither a lookup in the registry nor a flag evaluation
\* is made for it. A lookup is made only for a request that passes all five.
C10_CheckOrder ==
  \A s \in Slots :
    handler[s].pc # "idle" =>
      LET f == FirstFailedCheck(handler[s].req) IN
        /\ f # "" => /\ Answered(s)
                     /\ handler[s].resp.error = f
                     /\ handler[s].resp.status \in 400..499
                     /\ handler[s].gets = 0 /\ handler[s].evals = 0
                     /\ s \notin mu.r
        /\ f = "" => (Answered(s) => handler[s].gets = 1)
        /\ handler[s].gets > 0 => f = ""

\* A POST for "../etc" with a malformed body has been answered: it fails the
\* name check and the body check.
C10_Witness ==
  \E s \in Slots :
    /\ Answered(s) /\ handler[s].req.method = "POST"
    /\ handler[s].req.name = <<".", ".", "/", "e", "t", "c">>
    /\ ~ handler[s].req.body.ok
    /\ handler[s].resp.error = "invalid_feature"


\* The missing-application answer, written out.
MissingCallerAnswer ==
  [status |-> 400, error |-> "missing_app_name",
   text |-> "app_name is required in request body, must be one of the allowed inbound applications: ",
   apps |-> InboundApps, enabled |-> FALSE]

\* The handler decoded the body of the request: the method is allowed and
\* the feature name is present and valid, and the body is well-formed.
BodyParsed(req) ==
  /\ req.method \in {"POST", "QUERY"}
  /\ req.name \in {<<"f">>, <<"m", "y", "-", "f", "l", "a", "g">>}
  /\ req.body.ok

\* C11: a request whose body the handler parsed and whose caller identity is
\* empty is answered with the missing-application error, status 400, and the
\* message lists the allow-list; no lookup in the registry and no flag
\* evaluation is made for a request with an empty caller identity.
C11_MissingCaller ==
  \A s \in Slots :
    (handler[s].pc # "idle" /\ handler[s].req.body.ok /\ handler[s].req.body.appName = "")
      => /\ Answered(s)
         /\ handler[s].gets = 0 /\ handler[s].evals = 0
         /\ BodyParsed(handler[s].req) => handler[s].resp = MissingCallerAnswer

\* A QUERY for "my-flag" with an empty caller identity has been answered
\* while two applications are allowed.
C11_Witness ==
  \E s \in Slots :
    /\ Answered(s) /\ K = 2
    /\ handler[s].req.method = "QUERY"
    /\ handler[s].req.name = <<"m", "y", "-", "f", "l", "a", "g">>
    /\ handler[s].req.body = [ok |-> TRUE, appName |-> ""]
    /\ handler[s].resp.error = "missing_app_name"
    /\ handler[s].resp.apps = <<"app1", "app2">>

\* C12: a request whose method is neither POST nor QUERY is answered with
\* 405 "Method not allowed", whatever its feature name and body are, and no
\* lookup or evaluation is made for it; a POST or QUERY request is never
\* answered with 405.
C12_MethodFirst ==
  \A s \in Slots :
    handler[s].pc # "idle" =>
      IF handler[s].req.method \in {"POST", "QUERY"}
        THEN handler[s].resp.status # 405 /\ handler[s].resp.error # "method_not_allowed"
        ELSE /\ Answered(s)
             /\ handler[s].resp = [status |-> 405, error |-> "method_not_allowed",
                                   text |-> "Method not allowed", apps |-> <<>>,
                                   enabled |-> FALSE]
             /\ handler[s].gets = 0 /\ handler[s].evals = 0

\* A GET without a feature name and with a malformed body has been answered
\* with 405.
C12_Witness ==
  \E s \in Slots :
    /\ Answered(s) /\ handler[s].req.method = "GET"
    /\ handler[s].req.name = <<>> /\ ~ handler[s].req.body.ok
    /\ handler[s].resp.status = 405


\* The characters url.PathEscape leaves as they are in a path segment:
\* letters, digits, the marks - _ . ~ and the reserved $ & + : = @.
PathSegmentChars ==
  Letters \cup Digits \cup {"-", "_", ".", "~", "$", "&", "+", ":", "=", "@"}

C14_Delegated ==
  \A s \in Slots :
    /\ handler[s].evals <= 1
    /\ handler[s].evals = 1 =>
         /\ BodyParsed(handler[s].req) /\ handler[s].req.body.appName # "" /\ handler[s].found
         /\ handler[s].evalOn \in 1..K
         /\ task[handler[s].evalOn].app = handler[s].req.body.appName
         /\ task[handler[s].evalOn].inserted
         /\ client[handler[s].evalOn].appName = handler[s].req.body.appName
    /\ (Answered(s) /\ BodyParsed(handler[s].req) /\ handler[s].req.body.appName # ""
          /\ handler[s].found)
         => /\ handler[s].evals = 1 /\ handler[s].gets = 1
            /\ handler[s].resp = [status |-> 200, error |-> "", text |-> "", apps |-> <<>>,
                                  enabled |-> handler[s].decision]

\* A request of app2 has been answered "enabled" by the client of app2, the
\* second client of the registry.
C14_Witness ==
  \E s \in Slots :
    /\ Answered(s) /\ handler[s].req.body.appName = "app2"
    /\ handler[s].evalOn = 2 /\ handler[s].decision
    /\ handler[s].resp.status = 200 /\ handler[s].resp.enabled


\* C15: the readiness endpoint answers 200 exactly when the registry is
\* ready at the time of the request and 503 otherwise; the liveness
\* endpoint answers 200 in every state of the registry.
C15_Probes ==
  [][probe' # probe =>
       /\ probe'.path = "/isReady" =>
            /\ probe'.status = 200 <=> ready
            /\ probe'.status = 503 <=> ~ ready
            /\ ready' = ready
       /\ probe'.path = "/isAlive" => probe'.status = 200]_vars

\* The readiness endpoint has answered 503 while a client was already stored
\* and Initialize had not returned.
C15_Witness ==
  /\ probe = [path |-> "/isReady", status |-> 503]
  /\ initResult = "none" /\ DOMAIN clientMap # {}


\* C16 as stated: once a construction has failed, no request has been
\* answered with a flag decision, the registry is not ready, and the process
\* has not ended with status 0.
C16_NoDecisionWhenFailing ==
  FailedTasks # {} =>
    /\ \A s \in Slots : ~ (Answered(s) /\ handler[s].resp.status = 200)
    /\ ~ ready
    /\ proc # "exit0"

\* C16: once a construction has failed, the registry is never ready, no
\* signal handler is installed and no shutdown is begun, Initialize returns
\* nothing but the aggregate error, and the process does not end with status
\* 0; once Initialize has returned the error the next step of main is
\* os.Exit(1).
C16_FailedStartup ==
  /\ [](FailedTasks # {} =>
          /\ ~ ready
          /\ mainPc # "serving" /\ sdPc = "idle"
          /\ initResult \in {"none", "error"}
          /\ proc \in {"running", "exit1", "killed"}
          /\ mainPc = "returned" => initResult = "error")
  /\ [][(FailedTasks # {} /\ mainPc = "returned" /\ mainPc' = mainPc /\ proc' # proc)
          => proc' \in {"exit1", "killed"}]_vars

\* The process has ended with status 1 after the construction for app2
\* failed, and a request of app1 had been answered with a decision.
C16_Witness ==
  /\ proc = "exit1" /\ initResult = "error" /\ FailedApps = {"app2"}
  /\ \E s \in Slots : Answered(s) /\ handler[s].resp.status = 200


\* C17: for every identity at most one client is constructed; a client that
\* was stored stays the entry of its identity until Close empties the map;
\* and every client whose construction is finished is in the map or has been
\* closed. The allow-list may name an identity more than once.
C17_OneLiveClient ==
  /\ \A a \in Range(AllApps) : constructions[a] <= 1
  /\ \A i \in Tasks :
       (task[i].inserted /\ ~ MapEmptiedByClose)
         => (task[i].app \in DOMAIN clientMap /\ clientMap[task[i].app] = i)
  /\ \A i \in Tasks :
       (Running /\ task[i].pc = "done" /\ client[i].state \in {"created", "ready"})
         => \E a \in DOMAIN clientMap : clientMap[a] = i


\* C18: Close closes every client of the map exactly once, in a step in which
\* it holds the write lock and no reader holds the lock, and leaves the map
\* empty before it unlocks; no client is closed before or twice; after Close
\* has returned Get finds no client for any identity.
C18_Close ==
  /\ [](/\ \A i \in Tasks : client[i].closes <= 1
        /\ sdPc \in {"idle", "shutdown", "close", "closing"}
             => \A i \in Tasks : client[i].closes = 0 /\ client[i].state # "closed"
        /\ sdPc = "unlock" => mu = [w |-> {CloseHolder}, r |-> {}]
        /\ MapEmptiedByClose
             => /\ DOMAIN clientMap = {}
                /\ \A i \in 1..K : task[i].inserted /\ client[i].closes = 1
                                   /\ client[i].state = "closed"
        /\ sdPc \in {"otel", "cancel", "done"}
             => /\ CloseHolder \notin mu.w
                /\ \A a \in Range(AllApps) : ~ Get(a).ok)
  /\ [][(\E i \in Tasks : client'[i].closes # client[i].closes)
          => /\ mu = [w |-> {CloseHolder}, r |-> {}] /\ mu' = mu
             /\ \A i \in Tasks :
                  client'[i].closes = client[i].closes
                    + (IF \E a \in DOMAIN clientMap : clientMap[a] = i THEN 1 ELSE 0)]_vars

\* Close has returned after closing the clients of app1 and app2.
C18_Witness ==
  /\ sdPc = "otel" /\ K = 2
  /\ \A i \in 1..2 : client[i].state = "closed" /\ client[i].closes = 1
  /\ DOMAIN clientMap = {}


\* The steps of the shutdown goroutine in the claimed order: server.Shutdown
\* is called, it returns, Close locks, closes the clients, unlocks, the
\* telemetry is shut down, cancel() lets main return.
ShutdownOrder ==
  {<<"idle", "shutdown">>, <<"shutdown", "close">>, <<"close", "closing">>,
   <<"closing", "unlock">>, <<"unlock", "otel">>, <<"otel", "cancel">>,
   <<"cancel", "done">>}

\* C19: after the shutdown signal the server accepts no request; the
\* shutdown goroutine moves only along the claimed order, each step once; no
\* client is closed while server.Shutdown has not returned; the telemetry is
\* shut down only after Close has closed the clients and emptied the map;
\* and main returns, with status 0, only after all of it.
C19_ShutdownOrder ==
  /\ [](/\ sdPc # "idle" => ~ Accepting
        /\ sdPc \in {"idle", "shutdown"} => \A i \in Tasks : client[i].closes = 0
        /\ sdPc \in {"otel", "cancel", "done"}
             => /\ DOMAIN clientMap = {} /\ mu.w = {}
                /\ \A i \in 1..K : client[i].closes = 1
        /\ proc = "exit0" <=> sdPc = "done")
  /\ [][sdPc' # sdPc => <<sdPc, sdPc'>> \in ShutdownOrder]_vars

\* main has returned after a shutdown in which server.Shutdown gave up on a
\* request in flight, and the two clients were closed.
C19_Witness ==
  /\ proc = "exit0" /\ K = 2
  /\ \A i \in 1..2 : client[i].closes = 1
  /\ \E s \in Slots : handler[s].pc \notin {"idle", "done"}


\* C20: no flag evaluation is made on a client that Close has closed: the
\* client of every evaluation was open when IsEnabled was called on it, and
\* no handler that holds a client from Get is still ahead of its evaluation
\* when that client is closed.
C20_NoEvalAfterClose ==
  \A s \in Slots :
    /\ ~ handler[s].evalClosed
    /\ handler[s].pc = "eval" => client[handler[s].client].state # "closed"


\* C21: if the construction of every task resolves (no task stays in
\* WaitForReady for ever), Initialize returns, unless the process has ended
\* before; and as long as a construction has not signalled ready, and so in
\* a run where one never does, Initialize has not returned and the registry
\* is not ready.
C21_NoTimeout ==
  /\ []((\E i \in 1..K : task[i].pc = "waitready") => (initResult = "none" /\ ~ ready))
  /\ (\A i \in Tasks : []<>(task[i].pc # "waitready"))
       => <>(initResult # "none" \/ ~ Running)

\* Initialize has returned the error of app1 after the construction for app2
\* signalled ready.
C21_Witness ==
  /\ initResult = "error" /\ K = 2
  /\ client[1].state = "failed" /\ client[2].state = "ready"


\* C22: the server goroutine is started before Initialize, so requests are
\* served while it runs; the map gets one entry at a time while Initialize
\* has not returned and the registry is not ready; a lookup finds a client
\* exactly when the map has an entry for the caller identity at that moment,
\* ready or not; and a request whose lookup found a client is answered with
\* a decision.
C22_ServedDuringInitialize ==
  /\ []((Running /\ mainPc \in {"initialize", "spawn", "wait", "collect"})
          => server \in {"starting", "up"})
  /\ [](\A s \in Slots : (Answered(s) /\ handler[s].found) => handler[s].resp.status = 200)
  /\ [][\A s \in Slots :
          (handler[s].pc = "read" /\ handler'[s].pc # "read")
            => handler'[s].found = (handler[s].req.body.appName \in DOMAIN clientMap)]_vars
  /\ [][(clientMap' # clientMap /\ sdPc' = sdPc)
          => /\ ~ ready /\ initResult = "none"
             /\ \E a \in Allowed \ DOMAIN clientMap :
                  DOMAIN clientMap' = DOMAIN clientMap \cup {a}]_vars

\* A request of app1 has been answered with a decision while the registry
\* is not ready and the construction for app2 waits for its client.
C22_Witness ==
  /\ ~ ready /\ initResult = "none" /\ K = 2
  /\ task[2].pc = "waitready"
  /\ \E s \in Slots :
       /\ Answered(s) /\ handler[s].req.body.appName = "app1"
       /\ handler[s].resp.status = 200


\* C23: the error channel never holds more errors than there are failed
\* constructions, at most one of each task, and fewer than K while a task is
\* about to send; and, unless the process ends before, no task stays for
\* ever at the send of its error or between the send and wg.Done (a task
\* never goes back to the send), so that the barrier is not held up by the
\* reporting of errors, however many constructions fail.
C23_ErrorsNeverBlock ==
  /\ [](/\ Len(errChan) <= Cardinality(FailedTasks)
        /\ \A a \in Range(AllApps) :
             Cardinality({k \in 1..Len(errChan) : errChan[k].app = a}) <= 1
        /\ (\E i \in 1..K : task[i].pc = "senderr") => Len(errChan) < K)
  /\ []<>(~ Running \/ \A i \in Tasks : task[i].pc \notin {"senderr", "return"})

\* Both constructions have failed and Initialize has returned an error that
\* names both applications.
C23_Witness ==
  /\ K = 2 /\ FailedTasks = {1, 2}
  /\ task[1].pc = "done" /\ task[2].pc = "done"
  /\ initResult = "error" /\ Len(errs) = 2


\* C24: the shutdown goroutine, and with it Close, runs only after
\* Initialize has returned nil: every construction goroutine has ended and
\* the registry is ready; and once Close has emptied the map no client is
\* stored in it any more.
C24_CloseAfterInitialize ==
  /\ [](sdPc # "idle" =>
          /\ initResult = "nil" /\ ready
          /\ mainPc = "serving"
          /\ \A i \in 1..K : task[i].pc = "done"
          /\ mu.w \subseteq {CloseHolder})
  /\ [][MapEmptiedByClose => (DOMAIN clientMap' = {} /\ DOMAIN clientMap = {})]_vars

\* Close has emptied a map that held the clients of app1 and app2.
C24_Witness ==
  /\ sdPc = "unlock" /\ K = 2 /\ DOMAIN clientMap = {}
  /\ task[1].inserted /\ task[2].inserted

====
